---- MODULE Spec2Model ----
(***************************************************************************)
(* Benchmark coverage selector and trace-to-profile analysis of            *)
(* java-performance-history-buddy.                                         *)
(*                                                                         *)
(*   SpecSelector : BenchmarkExecutor.__minimize_and_distribute_methods    *)
(*                  run on every input dictionary within the bounds.       *)
(*   SpecExecute  : the part of BenchmarkExecutor.execute that turns the   *)
(*                  probe results and the changed methods into the input   *)
(*                  of the selector, followed by the selector.             *)
(*   SpecAnalysis : PerformanceAnalysis.analyze consuming the events of    *)
(*                  one capture session line by line.                      *)
(*   SpecSessions : PerformanceAnalysis.analyze consuming the events of    *)
(*                  several capture sessions one after the other.          *)
(*   SpecOutliers : PerformanceAnalysis._remove_outliers applied to a      *)
(*                  sample list and then to its own result.                *)
(*   SpecAssembler: PerformanceAnalysis._batch_process_traces turning the  *)
(*                  logs and metadata of the sessions into events.         *)
(*   SpecTraced   : PerformanceAnalysis.analyze consuming the session of a *)
(*                  properly nested program that loses EXIT lines.         *)
(*   SpecProfiles : the output loop of analyze() on the samples of one     *)
(*                  function.                                              *)
(*   SpecNames    : the selection of a benchmark's trace files by          *)
(*                  TraceParser and by _batch_process_traces.              *)
(*   SpecBuilds   : the build functions of BenchmarkExecutor and their     *)
(*                  history files.                                         *)
(*   SpecSampling : the loop of Pipeline.run over the candidate commits.   *)
(***************************************************************************)
EXTENDS Integers, Sequences, FiniteSets, TLC

(***************************************************************************)
(* Bounds of the model.                                                    *)
(***************************************************************************)
NumBenchmarks == 3
NumMethods == 2
MaxDuration == 3
MaxProbed == 2
MaxEvents == 5
MaxTime == 2
MaxSessions == 2
MaxSamples == 11
MaxSample == 2
MaxLines == 2
MaxStamp == 1
MaxOffset == 1
MaxFiles == 4
MaxCandidates == 386
SmallCandidates == 3
MaxFailures == 1

\* execute() works on the two commits under comparison (previous, current).
Commits == {"previous", "current"}
Methods == 1..NumMethods
Durations == 1..MaxDuration
\* Benchmark names; the integer order stands for the string order of names.
BenchmarkNames == 1..NumBenchmarks

SIGNIFICANTLY_HIGHER_FACTOR == 2

VARIABLES
    pc,                  \* position of the selector: "loop", "done", "error"
    benchmarks,          \* argument: name -> [targets: commit -> set, duration]
    all_methods,         \* commit -> set of methods to be covered
    sorted_benchmarks,   \* list of the benchmarks still under consideration
    selected_benchmarks, \* commit -> (benchmark -> assigned targets)
    covered_methods,     \* commit -> set of methods covered so far
    best_benchmark,      \* the benchmark committed by the last iteration
    iterations,          \* number of loop iterations executed
    changed_methods,     \* execute(): commit -> changed method signatures
    target_methods,      \* execute(): probe results [methods, duration]
    apc,                 \* position of analyze(): "reading", "done"
    trace,               \* the lines analyze() has read so far
    call_stack,          \* frames (function, start time, child time)
    total_times,         \* function -> list of total-time samples
    self_times,          \* function -> list of self-time samples
    call_counts,         \* function -> number of ENTER lines
    output,              \* function -> profile returned by analyze()
    session,             \* number of the capture session being read
    program,             \* the traced program: its open calls, the EXIT lines it lost
    opc,                 \* position of the outlier filter: "start", "once", "twice"
    raw_data,            \* the sample list given to _remove_outliers
    cleaned,             \* the result of _remove_outliers(raw_data)
    recleaned,           \* the result of _remove_outliers(cleaned)
    bpc,                 \* position of _batch_process_traces
    trace_files,         \* the sessions listed so far, with the lines read
    emitted,             \* the lines the generator has yielded
    ppc,                 \* position of the output loop of analyze()
    recorded,            \* the (total time, self time) samples of a function
    reported,            \* the profile analyze() reports for the function
    npc,                 \* position of the two assemblers on a directory
    directory,           \* the trace files of the directory
    trace_file_name,     \* the base name of the benchmark being assembled
    parsed_from,         \* log files whose lines TraceParser returned
    analysed_from,       \* log files whose lines _batch_process_traces yielded
    build_history,       \* build_history.json: commit -> status
    benchmark_build_history, \* benchmark_build_history.json: commit -> status
    performed,           \* outcome of the last build performed, per file and commit
    last_call,           \* the last build call and the value it returned
    spc,                 \* position of the sampling loop of Pipeline.run
    sampling,            \* N, sample_size, k, start and whether results are stored
    progress,            \* i and sampled_count
    performance_db,      \* the stored results: set of (commit, status)
    visits               \* the candidate indices visited, in order

selVars == <<pc, benchmarks, all_methods, sorted_benchmarks, selected_benchmarks,
             covered_methods, best_benchmark, iterations>>

exeVars == <<changed_methods, target_methods>>

anaVars == <<apc, trace, call_stack, total_times, self_times, call_counts, output,
             session, program>>

outVars == <<opc, raw_data, cleaned, recleaned>>

asmVars == <<bpc, trace_files, emitted>>

prfVars == <<ppc, recorded, reported>>

namVars == <<npc, directory, trace_file_name, parsed_from, analysed_from>>

bldVars == <<build_history, benchmark_build_history, performed, last_call>>

smpVars == <<spc, sampling, progress, performance_db, visits>>

extVars == <<prfVars, namVars, bldVars, smpVars>>

vars == <<selVars, exeVars, anaVars, outVars, asmVars, extVars>>

NoBenchmark == 0

(***************************************************************************)
(* Helpers on sequences and sets.                                          *)
(***************************************************************************)
RECURSIVE SumOver(_, _)
SumOver(S, f) ==
    IF S = {} THEN 0
    ELSE LET x == CHOOSE y \in S : TRUE IN f[x] + SumOver(S \ {x}, f)

Range(s) == {s[i] : i \in 1..Len(s)}

SelectSeqBy(s, keep) == SelectSeq(s, LAMBDA x : x \in keep)

(***************************************************************************)
(* The input dictionaries: every benchmark that execute() passes targets   *)
(* at least one changed method of some commit.                             *)
(***************************************************************************)
BenchmarkInfo ==
    {info \in [targets : [Commits -> SUBSET Methods], duration : Durations] :
        \E c \in Commits : info.targets[c] # {}}

BenchmarkDicts(n) == [1..n -> BenchmarkInfo]

(***************************************************************************)
(* Lines 739-745: the methods to be covered for each commit.               *)
(***************************************************************************)
AllMethods(bms) ==
    [c \in Commits |-> UNION {bms[b].targets[c] : b \in DOMAIN bms}]

\* Lines 748-755: tuples sorted by (name, ...); names are unique.
InitialOrder(bms) == [i \in 1..Cardinality(DOMAIN bms) |-> i]

(***************************************************************************)
(* Lines 766 and 778-779: number of methods a benchmark would newly cover. *)
(***************************************************************************)
NewCoverageCount(bms, covered, b) ==
    SumOver(Commits,
            [c \in Commits |-> Cardinality(bms[b].targets[c] \ covered[c])])

(***************************************************************************)
(* Lines 763-769: stable sort by (-new coverage, duration).                *)
(***************************************************************************)
\* Variant: the key is (duration, -new coverage).
SortKeyLess_DurationFirst(bms, covered, a, b) ==
    \/ bms[a].duration < bms[b].duration
    \/ /\ bms[a].duration = bms[b].duration
       /\ NewCoverageCount(bms, covered, a) > NewCoverageCount(bms, covered, b)

\* Variant: the key is -new coverage alone.
SortKeyLess_NoDuration(bms, covered, a, b) ==
    NewCoverageCount(bms, covered, a) > NewCoverageCount(bms, covered, b)

\* Variant: the key is (new coverage, duration), the minus sign forgotten.
SortKeyLess_Ascending(bms, covered, a, b) ==
    \/ NewCoverageCount(bms, covered, a) < NewCoverageCount(bms, covered, b)
    \/ /\ NewCoverageCount(bms, covered, a) = NewCoverageCount(bms, covered, b)
       /\ bms[a].duration < bms[b].duration

SortKeyLess(bms, covered, a, b) ==
    \/ NewCoverageCount(bms, covered, a) > NewCoverageCount(bms, covered, b)
    \/ /\ NewCoverageCount(bms, covered, a) = NewCoverageCount(bms, covered, b)
       /\ bms[a].duration < bms[b].duration

RECURSIVE InsertByKey(_, _, _, _)
InsertByKey(bms, covered, s, b) ==
    IF s = <<>> THEN <<b>>
    ELSE IF SortKeyLess(bms, covered, b, Head(s)) THEN <<b>> \o s
    ELSE <<Head(s)>> \o InsertByKey(bms, covered, Tail(s), b)

\* sorted() is stable: equal keys keep the order they have in s.
RECURSIVE SortBenchmarks(_, _, _)
SortBenchmarks(bms, covered, s) ==
    IF s = <<>> THEN <<>>
    ELSE InsertByKey(bms, covered,
                     SortBenchmarks(bms, covered, SubSeq(s, 1, Len(s) - 1)),
                     s[Len(s)])

(***************************************************************************)
(* Lines 776-780: the other benchmarks with the coverage of the first.     *)
(***************************************************************************)
\* Variant: every other benchmark is an alternative, whatever its coverage.
AlternativeBenchmarks_AnyCoverage(bms, covered, s) == Tail(s)

AlternativeBenchmarks(bms, covered, s) ==
    SelectSeqBy(Tail(s),
        {b \in Range(Tail(s)) :
            NewCoverageCount(bms, covered, b)
                = NewCoverageCount(bms, covered, s[1])})

\* min(alternatives, key=duration): the first one of least duration.
MinByDuration(bms, s) ==
    s[CHOOSE i \in 1..Len(s) :
        /\ \A j \in 1..Len(s) : bms[s[i]].duration <= bms[s[j]].duration
        /\ \A j \in 1..(i - 1) : bms[s[j]].duration > bms[s[i]].duration]

(***************************************************************************)
(* Lines 772-787: the benchmark the iteration commits to; s is sorted.     *)
(***************************************************************************)
\* Variant: the fastest remaining benchmark replaces the first one, whatever
\* its coverage.
ChooseBest_FastestOverall(bms, covered, s) ==
    IF bms[s[1]].duration
          > bms[MinByDuration(bms, s)].duration * SIGNIFICANTLY_HIGHER_FACTOR
    THEN MinByDuration(bms, s)
    ELSE s[1]

\* Variant: >= without the factor in place of > with it.
ChooseBest_AtLeast(bms, covered, s) ==
    LET alternative_benchmarks == AlternativeBenchmarks(bms, covered, s)
    IN IF /\ alternative_benchmarks # <<>>
          /\ bms[s[1]].duration
                >= bms[MinByDuration(bms, alternative_benchmarks)].duration
       THEN MinByDuration(bms, alternative_benchmarks)
       ELSE s[1]

ChooseBest(bms, covered, s) ==
    LET alternative_benchmarks == AlternativeBenchmarks(bms, covered, s)
        best_duration == bms[s[1]].duration
        min_alternative_duration ==
            bms[MinByDuration(bms, alternative_benchmarks)].duration
    IN IF /\ alternative_benchmarks # <<>>
          /\ best_duration > min_alternative_duration * SIGNIFICANTLY_HIGHER_FACTOR
       THEN MinByDuration(bms, alternative_benchmarks)
       ELSE s[1]

(***************************************************************************)
(* Lines 791-810: the methods the chosen benchmark newly covers.           *)
(***************************************************************************)
\* Variant: every method the benchmark reaches, already covered or not.
NewMethods_All(bms, covered, b) ==
    [c \in Commits |-> bms[b].targets[c]]

NewMethods(bms, covered, b) ==
    [c \in Commits |-> bms[b].targets[c] \ covered[c]]

\* Variant: the entry is created without the test "if new_methods".
AddSelected_NoCheck(bms, sel, b, new) ==
    [c \in Commits |->
        [x \in (DOMAIN sel[c]) \cup {b} |->
            IF x = b
            THEN [targets |-> (IF b \in DOMAIN sel[c]
                               THEN sel[c][b].targets ELSE {}) \cup new[c],
                  duration |-> bms[b].duration]
            ELSE sel[c][x]]]

\* Lines 794-808: selected_benchmarks[commit][benchmark]["targets"].extend(new)
AddSelected(bms, sel, b, new) ==
    [c \in Commits |->
        IF new[c] = {} THEN sel[c]
        ELSE [x \in (DOMAIN sel[c]) \cup {b} |->
                IF x = b
                THEN [targets |-> (IF b \in DOMAIN sel[c]
                                   THEN sel[c][b].targets ELSE {}) \cup new[c],
                      duration |-> bms[b].duration]
                ELSE sel[c][x]]]

\* Variant: all() in place of any().
NotAllCovered_All(covered, all) == \A c \in Commits : covered[c] # all[c]

\* Line 761: the loop condition.
NotAllCovered(covered, all) == \E c \in Commits : covered[c] # all[c]

EmptyDict == [x \in {} |-> {}]

\* _remove_outliers and _batch_process_traces are not running.
OutliersIdle ==
    /\ opc = "idle"
    /\ raw_data = <<>>
    /\ cleaned = <<>>
    /\ recleaned = <<>>

AssemblerIdle ==
    /\ bpc = "idle"
    /\ trace_files = <<>>
    /\ emitted = <<>>

\* execute() is not running.
ExecuteIdle ==
    /\ changed_methods = [c \in Commits |-> {}]
    /\ target_methods = <<>>

(***************************************************************************)
(* PerformanceAnalysis (src/jphb/core/performance_analysis.py).            *)
(***************************************************************************)
Z_THRESHOLD == 3

Kinds == {"S", "E"}

RECURSIVE SumSeq(_)
SumSeq(s) == IF s = <<>> THEN 0 ELSE Head(s) + SumSeq(Tail(s))

MinSeq(s) == CHOOSE x \in Range(s) : \A y \in Range(s) : x <= y

MaxSeq(s) == CHOOSE x \in Range(s) : \A y \in Range(s) : x >= y

\* n * (x - mean), the deviation of a sample scaled to stay an integer.
Deviation(data, x) == Len(data) * x - SumSeq(data)

SumSquaredDeviations(data) ==
    LET n == Len(data)
        total == SumSeq(data)
    IN SumSeq([i \in 1..n |-> (n * data[i] - total) * (n * data[i] - total)])

\* Variant: the squared z-score is compared with the threshold itself.
ZScoreBelowThreshold_Unsquared(data, x) ==
    Len(data) * Deviation(data, x) * Deviation(data, x)
        < Z_THRESHOLD * SumSquaredDeviations(data)

\* Line 62-63: |zscore| < z_threshold, with zscore = (x - mean) / std and
\* std the population deviation.  For equal samples std = 0, the z-score is
\* nan and the comparison is false.
ZScoreBelowThreshold(data, x) ==
    Len(data) * Deviation(data, x) * Deviation(data, x)
        < Z_THRESHOLD * Z_THRESHOLD * SumSquaredDeviations(data)

\* Variant: the filter is applied to lists of one sample too.
RemoveOutliers_NoLengthGuard(data) ==
    SelectSeq(data, LAMBDA x : ZScoreBelowThreshold(data, x))

\* Lines 59-63: _remove_outliers.
RemoveOutliers(data) ==
    IF Len(data) < 2 THEN data
    ELSE SelectSeq(data, LAMBDA x : ZScoreBelowThreshold(data, x))

NoProfile == [call_count |-> -1]

ZeroProfile ==
    [total_execution_time |-> 0, self_execution_time |-> 0,
     average_self_time |-> <<0, 1>>, cumulative_execution_time |-> 0,
     min_execution_time |-> 0, max_execution_time |-> 0, call_count |-> 0]

\* Variant: a function whose samples are all discarded gets no profile.
Profile_OmitEmpty(totals, selfs) ==
    LET cleaned_total_times == RemoveOutliers(totals)
        cleaned_self_times == RemoveOutliers(selfs)
    IN IF cleaned_total_times # <<>> /\ cleaned_self_times # <<>>
       THEN [total_execution_time |-> SumSeq(cleaned_total_times),
             self_execution_time |-> SumSeq(cleaned_self_times),
             average_self_time |->
                 <<SumSeq(cleaned_self_times), Len(cleaned_self_times)>>,
             cumulative_execution_time |-> SumSeq(cleaned_total_times),
             min_execution_time |-> MinSeq(cleaned_total_times),
             max_execution_time |-> MaxSeq(cleaned_total_times),
             call_count |-> Len(cleaned_total_times)]
       ELSE NoProfile

\* Lines 32-55: the profile of one function; the mean is kept as the pair
\* (sum, number of samples).
Profile(totals, selfs) ==
    LET cleaned_total_times == RemoveOutliers(totals)
        cleaned_self_times == RemoveOutliers(selfs)
    IN IF cleaned_total_times # <<>> /\ cleaned_self_times # <<>>
       THEN [total_execution_time |-> SumSeq(cleaned_total_times),
             self_execution_time |-> SumSeq(cleaned_self_times),
             average_self_time |->
                 <<SumSeq(cleaned_self_times), Len(cleaned_self_times)>>,
             cumulative_execution_time |-> SumSeq(cleaned_total_times),
             min_execution_time |-> MinSeq(cleaned_total_times),
             max_execution_time |-> MaxSeq(cleaned_total_times),
             call_count |-> Len(cleaned_total_times)]
       ELSE ZeroProfile

\* Variant: the self time is the total time, child time is not subtracted.
SelfTime_NoChildren(total_time, child_time) == total_time

\* Line 76.
SelfTime(total_time, child_time) == total_time - child_time

\* Lines 81-83: the caller's frame with the child's total time added.
AddChildTime(frame, total_time) ==
    [frame EXCEPT !.child_time = frame.child_time + total_time]

\* Variant: the duration is taken from the start of the caller's frame.
StartOfCall_Bottom(stack) == stack[1].start_time

\* Line 74: the start time popped with the top frame.
StartOfCall(stack) == stack[Len(stack)].start_time

\* The timestamps of a session do not decrease.
Now == IF trace = <<>> THEN 0 ELSE trace[Len(trace)].time

\* Functions are numbered in the order in which they first appear.
NextFunctions ==
    {f \in Methods : f <= Cardinality({trace[i].function : i \in 1..Len(trace)}) + 1}

\* The output loop of analyze() is not running on its own.
ProfileIdle ==
    /\ ppc = "idle"
    /\ recorded = <<>>
    /\ reported = NoProfile

\* No directory is being assembled.
NamesIdle ==
    /\ npc = "idle"
    /\ directory = {}
    /\ trace_file_name = <<>>
    /\ parsed_from = {}
    /\ analysed_from = {}

\* No build has been requested.
BuildsIdle ==
    /\ build_history = EmptyDict
    /\ benchmark_build_history = EmptyDict
    /\ performed = EmptyDict
    /\ last_call = EmptyDict

\* Pipeline.run is not running.
SamplingIdle ==
    /\ spc = "idle"
    /\ sampling = EmptyDict
    /\ progress = EmptyDict
    /\ performance_db = {}
    /\ visits = <<>>

ExtIdle == ProfileIdle /\ NamesIdle /\ BuildsIdle /\ SamplingIdle

\* The traced program before its first call: stack holds the open calls,
\* each named by the position of its ENTER line in the trace; missing the
\* calls whose EXIT line was not written, with the calls that enclose them;
\* logged the calls whose EXIT line was written, with its position.
NoProgram == [stack |-> <<>>, missing |-> {}, logged |-> {}]

AnalysisIdle ==
    /\ apc = "idle"
    /\ trace = <<>>
    /\ call_stack = <<>>
    /\ total_times = [f \in Methods |-> <<>>]
    /\ self_times = [f \in Methods |-> <<>>]
    /\ call_counts = [f \in Methods |-> 0]
    /\ output = [f \in Methods |-> NoProfile]
    /\ session = 0
    /\ program = NoProgram

\* Lines 21-25.
InitAnalysis ==
    /\ apc = "reading"
    /\ trace = <<>>
    /\ call_stack = <<>>
    /\ total_times = [f \in Methods |-> <<>>]
    /\ self_times = [f \in Methods |-> <<>>]
    /\ call_counts = [f \in Methods |-> 0]
    /\ output = [f \in Methods |-> NoProfile]
    /\ session = 1
    /\ program = NoProgram
    /\ pc = "idle"
    /\ benchmarks = <<>>
    /\ all_methods = [c \in Commits |-> {}]
    /\ sorted_benchmarks = <<>>
    /\ selected_benchmarks = [c \in Commits |-> EmptyDict]
    /\ covered_methods = [c \in Commits |-> {}]
    /\ best_benchmark = NoBenchmark
    /\ iterations = 0
    /\ ExecuteIdle
    /\ OutliersIdle
    /\ AssemblerIdle
    /\ ExtIdle

\* Variant: the ENTER line is not counted.
ProcessEnter_NoCount(function, timestamp) ==
    /\ call_stack' = Append(call_stack,
            [function |-> function, start_time |-> timestamp, child_time |-> 0])
    /\ UNCHANGED <<total_times, self_times, call_counts>>

\* Lines 66-69: an ENTER line.
ProcessEnter(function, timestamp) ==
    /\ call_stack' = Append(call_stack,
            [function |-> function, start_time |-> timestamp, child_time |-> 0])
    /\ call_counts' = [call_counts EXCEPT ![function] = @ + 1]
    /\ UNCHANGED <<total_times, self_times>>

\* Variant: an EXIT line closes the nearest frame of its function and drops
\* the frames above it.
ProcessExit_UnwindToMatch(function, exit_time) ==
    IF \E k \in 1..Len(call_stack) : call_stack[k].function = function
    THEN LET k == CHOOSE i \in 1..Len(call_stack) :
                      /\ call_stack[i].function = function
                      /\ \A j \in (i + 1)..Len(call_stack) :
                            call_stack[j].function # function
             total_time == exit_time - call_stack[k].start_time
             self_time == SelfTime(total_time, call_stack[k].child_time)
             popped == SubSeq(call_stack, 1, k - 1)
         IN /\ total_times' = [total_times EXCEPT ![function] = Append(@, total_time)]
            /\ self_times' = [self_times EXCEPT ![function] = Append(@, self_time)]
            /\ call_stack' =
                  IF popped # <<>>
                  THEN [popped EXCEPT ![Len(popped)] = AddChildTime(@, total_time)]
                  ELSE popped
            /\ UNCHANGED call_counts
    ELSE UNCHANGED <<call_stack, total_times, self_times, call_counts>>

\* Variant: an EXIT line pops the top frame whatever function it names.
ProcessExit_AnyTop(function, exit_time) ==
    IF call_stack # <<>>
    THEN LET top == call_stack[Len(call_stack)]
             total_time == exit_time - StartOfCall(call_stack)
             self_time == SelfTime(total_time, top.child_time)
             popped == SubSeq(call_stack, 1, Len(call_stack) - 1)
         IN /\ total_times' = [total_times EXCEPT ![function] = Append(@, total_time)]
            /\ self_times' = [self_times EXCEPT ![function] = Append(@, self_time)]
            /\ call_stack' =
                  IF popped # <<>>
                  THEN [popped EXCEPT ![Len(popped)] = AddChildTime(@, total_time)]
                  ELSE popped
            /\ UNCHANGED call_counts
    ELSE UNCHANGED <<call_stack, total_times, self_times, call_counts>>

\* Lines 70-83: an EXIT line.
ProcessExit(function, exit_time) ==
    IF call_stack # <<>> /\ call_stack[Len(call_stack)].function = function
    THEN LET top == call_stack[Len(call_stack)]
             total_time == exit_time - StartOfCall(call_stack)
             self_time == SelfTime(total_time, top.child_time)
             popped == SubSeq(call_stack, 1, Len(call_stack) - 1)
         IN /\ total_times' = [total_times EXCEPT ![function] = Append(@, total_time)]
            /\ self_times' = [self_times EXCEPT ![function] = Append(@, self_time)]
            /\ call_stack' =
                  IF popped # <<>>
                  THEN [popped EXCEPT ![Len(popped)] = AddChildTime(@, total_time)]
                  ELSE popped
            /\ UNCHANGED call_counts
    ELSE UNCHANGED <<call_stack, total_times, self_times, call_counts>>

\* Lines 27-28 and 65-83: the next line of the session is read and processed.
ProcessLine ==
    /\ apc = "reading"
    /\ Len(trace) < MaxEvents
    /\ \E kind \in Kinds, function \in NextFunctions, timestamp \in Now..MaxTime :
          /\ trace' = Append(trace,
                 [kind |-> kind, time |-> timestamp, function |-> function,
                  session |-> session])
          /\ IF kind = "S" THEN ProcessEnter(function, timestamp)
             ELSE ProcessExit(function, timestamp)
    /\ UNCHANGED <<apc, output, session, program, selVars, exeVars, outVars,
                   asmVars, extVars>>

\* Variant: a profile is built for every function that was entered.
Finish_EveryEntered ==
    /\ apc = "reading"
    /\ apc' = "done"
    /\ output' = [f \in Methods |->
                    IF call_counts[f] > 0
                    THEN Profile(total_times[f], self_times[f])
                    ELSE NoProfile]
    /\ UNCHANGED <<trace, call_stack, total_times, self_times, call_counts,
                   session, program, selVars, exeVars, outVars, asmVars, extVars>>

\* Lines 30-57: the lines are exhausted, the profiles are built.
Finish ==
    /\ apc = "reading"
    /\ apc' = "done"
    /\ output' = [f \in Methods |->
                    IF total_times[f] # <<>>
                    THEN Profile(total_times[f], self_times[f])
                    ELSE NoProfile]
    /\ UNCHANGED <<trace, call_stack, total_times, self_times, call_counts,
                   session, program, selVars, exeVars, outVars, asmVars, extVars>>

NextAnalysis == ProcessLine \/ Finish

SpecAnalysis == InitAnalysis /\ [][NextAnalysis]_vars

\* Lines 85-95: the log of one session is exhausted and the generator goes
\* on with the log of the next session; analyze() keeps reading lines.
NextSession ==
    /\ apc = "reading"
    /\ session < MaxSessions
    /\ session' = session + 1
    /\ UNCHANGED <<apc, trace, call_stack, total_times, self_times, call_counts,
                   output, program, selVars, exeVars, outVars, asmVars, extVars>>

NextSessions == ProcessLine \/ NextSession \/ Finish

\* analyze() reading the sessions of a benchmark one after the other.
SpecSessions == InitAnalysis /\ [][NextSessions]_vars

(***************************************************************************)
(* analyze() reading the session of a single-threaded program whose calls  *)
(* are properly nested and whose tracing agent writes every ENTER line but *)
(* may lose EXIT lines.                                                    *)
(***************************************************************************)
\* The program calls function: its ENTER line is read (lines 66-69).
EnterLine ==
    /\ apc = "reading"
    /\ Len(trace) < MaxEvents
    /\ \E function \in NextFunctions, timestamp \in Now..MaxTime :
          /\ trace' = Append(trace,
                 [kind |-> "S", time |-> timestamp, function |-> function,
                  session |-> session])
          /\ ProcessEnter(function, timestamp)
    /\ program' = [program EXCEPT !.stack = Append(@, Len(trace) + 1)]
    /\ UNCHANGED <<apc, output, session, selVars, exeVars, outVars, asmVars, extVars>>

\* The innermost open call returns: its EXIT line is read (lines 70-83).
ExitLine ==
    /\ apc = "reading"
    /\ Len(trace) < MaxEvents
    /\ program.stack # <<>>
    /\ LET call == program.stack[Len(program.stack)]
       IN /\ \E timestamp \in Now..MaxTime :
                /\ trace' = Append(trace,
                       [kind |-> "E", time |-> timestamp,
                        function |-> trace[call].function, session |-> session])
                /\ ProcessExit(trace[call].function, timestamp)
          /\ program' =
                [program EXCEPT
                    !.stack = SubSeq(@, 1, Len(@) - 1),
                    !.logged = @ \cup {[call |-> call, exit |-> Len(trace) + 1]}]
    /\ UNCHANGED <<apc, output, session, selVars, exeVars, outVars, asmVars, extVars>>

\* The innermost open call returns and its EXIT line is not written.
ExitLineLost ==
    /\ apc = "reading"
    /\ program.stack # <<>>
    /\ LET call == program.stack[Len(program.stack)]
           beneath == SubSeq(program.stack, 1, Len(program.stack) - 1)
       IN program' =
             [program EXCEPT
                 !.stack = beneath,
                 !.missing = @ \cup {[call |-> call, enclosing |-> Range(beneath)]}]
    /\ UNCHANGED <<apc, trace, call_stack, total_times, self_times, call_counts,
                   output, session, selVars, exeVars, outVars, asmVars, extVars>>

NextTraced == EnterLine \/ ExitLine \/ ExitLineLost \/ Finish

SpecTraced == InitAnalysis /\ [][NextTraced]_vars

(***************************************************************************)
(* _remove_outliers on every sample list within the bounds, applied once   *)
(* and then to its own result.                                             *)
(***************************************************************************)
Samples == 0..MaxSample

\* A sample whose z-score is exactly the threshold: the floating-point
\* quotient of line 62 falls on either side of 3.0, depending on the values.
ZScoreAtThreshold(samples, x) ==
    /\ SumSquaredDeviations(samples) > 0
    /\ Len(samples) * Deviation(samples, x) * Deviation(samples, x)
          = Z_THRESHOLD * Z_THRESHOLD * SumSquaredDeviations(samples)

\* Lines 59-63 in floating point: the lists _remove_outliers can return.
RemoveOutliersResults(samples) ==
    IF Len(samples) < 2 THEN {samples}
    ELSE LET ties == {x \in Range(samples) : ZScoreAtThreshold(samples, x)}
         IN {SelectSeq(samples,
                 LAMBDA x : \/ ZScoreBelowThreshold(samples, x) /\ x \notin ties
                            \/ x \in rounded_down)
             : rounded_down \in SUBSET ties}

\* The list holding counts[v] samples of every value v, in non-decreasing
\* order; the z-score of a sample does not depend on the order of the list.
RECURSIVE SampleList(_, _)
SampleList(counts, v) ==
    IF v > MaxSample THEN <<>>
    ELSE [i \in 1..counts[v] |-> v] \o SampleList(counts, v + 1)

InitOutliers ==
    /\ opc = "start"
    /\ \E counts \in [Samples -> 0..MaxSamples] :
          /\ SumOver(Samples, counts) <= MaxSamples
          /\ raw_data = SampleList(counts, 0)
    /\ cleaned = <<>>
    /\ recleaned = <<>>
    /\ pc = "idle"
    /\ benchmarks = <<>>
    /\ all_methods = [c \in Commits |-> {}]
    /\ sorted_benchmarks = <<>>
    /\ selected_benchmarks = [c \in Commits |-> EmptyDict]
    /\ covered_methods = [c \in Commits |-> {}]
    /\ best_benchmark = NoBenchmark
    /\ iterations = 0
    /\ ExecuteIdle
    /\ AnalysisIdle
    /\ AssemblerIdle
    /\ ExtIdle

\* _remove_outliers(data).
FilterOnce ==
    /\ opc = "start"
    /\ cleaned' \in RemoveOutliersResults(raw_data)
    /\ opc' = "once"
    /\ UNCHANGED <<raw_data, recleaned, selVars, exeVars, anaVars, asmVars, extVars>>

\* _remove_outliers(_remove_outliers(data)).
FilterTwice ==
    /\ opc = "once"
    /\ recleaned' \in RemoveOutliersResults(cleaned)
    /\ opc' = "twice"
    /\ UNCHANGED <<raw_data, cleaned, selVars, exeVars, anaVars, asmVars, extVars>>

NextOutliers == FilterOnce \/ FilterTwice

SpecOutliers == InitOutliers /\ [][NextOutliers]_vars

(***************************************************************************)
(* The output loop of analyze(), lines 30-57, on the samples of one        *)
(* function.  Every matched EXIT appends a total time and a self time      *)
(* (lines 78-79); with non-decreasing timestamps 0 <= self <= total, and   *)
(* every such pair is the sample of a call whose callees take the rest.    *)
(* The samples are recorded in non-decreasing order: neither the z-scores  *)
(* nor the sums depend on the order.                                       *)
(***************************************************************************)
SelectorIdle ==
    /\ pc = "idle"
    /\ benchmarks = <<>>
    /\ all_methods = [c \in Commits |-> {}]
    /\ sorted_benchmarks = <<>>
    /\ selected_benchmarks = [c \in Commits |-> EmptyDict]
    /\ covered_methods = [c \in Commits |-> {}]
    /\ best_benchmark = NoBenchmark
    /\ iterations = 0

CoreIdle ==
    /\ SelectorIdle
    /\ ExecuteIdle
    /\ AnalysisIdle
    /\ OutliersIdle
    /\ AssemblerIdle

coreVars == <<selVars, exeVars, anaVars, outVars, asmVars>>

\* Lines 35-55 on the two cleaned lists.
ProfileOfCleaned(cleaned_total_times, cleaned_self_times) ==
    IF cleaned_total_times # <<>> /\ cleaned_self_times # <<>>
    THEN [total_execution_time |-> SumSeq(cleaned_total_times),
          self_execution_time |-> SumSeq(cleaned_self_times),
          average_self_time |->
              <<SumSeq(cleaned_self_times), Len(cleaned_self_times)>>,
          cumulative_execution_time |-> SumSeq(cleaned_total_times),
          min_execution_time |-> MinSeq(cleaned_total_times),
          max_execution_time |-> MaxSeq(cleaned_total_times),
          call_count |-> Len(cleaned_total_times)]
    ELSE ZeroProfile

\* Lines 32-55 in floating point: the profiles the loop can build.  Equal
\* lists are filtered alike.
ProfileResults(totals, selfs) ==
    UNION {{ProfileOfCleaned(cleaned_total_times, cleaned_self_times) :
                cleaned_self_times \in
                    IF selfs = totals THEN {cleaned_total_times}
                    ELSE RemoveOutliersResults(selfs)} :
           cleaned_total_times \in RemoveOutliersResults(totals)}

SampleLess(a, b) ==
    \/ a.total_time < b.total_time
    \/ a.total_time = b.total_time /\ a.self_time < b.self_time

InitProfiles ==
    /\ ppc = "recording"
    /\ recorded = <<>>
    /\ reported = NoProfile
    /\ CoreIdle
    /\ NamesIdle /\ BuildsIdle /\ SamplingIdle

\* Lines 75-79: a matched EXIT of the function.
RecordInvocation ==
    /\ ppc = "recording"
    /\ Len(recorded) < MaxSamples
    /\ \E total_time \in Samples :
          \E self_time \in 0..total_time :
             LET sample == [total_time |-> total_time, self_time |-> self_time]
             IN /\ recorded # <<>> => ~SampleLess(sample, recorded[Len(recorded)])
                /\ recorded' = Append(recorded, sample)
    /\ UNCHANGED <<ppc, reported, coreVars, namVars, bldVars, smpVars>>

\* Lines 32-55: the profile of the function.
ReportProfile ==
    /\ ppc = "recording"
    /\ recorded # <<>>
    /\ reported' \in ProfileResults(
                         [i \in 1..Len(recorded) |-> recorded[i].total_time],
                         [i \in 1..Len(recorded) |-> recorded[i].self_time])
    /\ ppc' = "done"
    /\ UNCHANGED <<recorded, coreVars, namVars, bldVars, smpVars>>

NextProfiles == RecordInvocation \/ ReportProfile

SpecProfiles == InitProfiles /\ [][NextProfiles]_vars

(***************************************************************************)
(* The selection of the trace files of a benchmark in a directory that     *)
(* several benchmarks write to: TraceParser.get_trace_data_well_formatted  *)
(* (the probe, on commits/<hash>/visited) and                              *)
(* PerformanceAnalysis._batch_process_traces (the analysis, on             *)
(* execution/<hash>/ust).  A file name is a sequence of characters, the    *)
(* extension being one character; the agent names the files of a session   *)
(* <benchmark>_<session key>.log and <benchmark>_<session key>.json.       *)
(***************************************************************************)
BenchmarkFileNames ==
    {<<"a">>, <<"a", "b">>, <<"b", "a">>, <<"a", "_", "a">>}

SessionKeys == {<<"1">>, <<"2">>}

Extensions == {".log", ".json"}

TraceFiles == [owner : BenchmarkFileNames, key : SessionKeys, ext : Extensions]

FileName(f) == f.owner \o <<"_">> \o f.key \o <<f.ext>>

StartsWith(text, prefix) ==
    Len(prefix) <= Len(text) /\ SubSeq(text, 1, Len(prefix)) = prefix

\* part in text
Contains(text, part) ==
    \E at \in 0..(Len(text) - Len(part)) :
        SubSeq(text, at + 1, at + Len(part)) = part

\* text.replace(old, '')
RECURSIVE Replaced(_, _)
Replaced(text, old) ==
    IF text = <<>> THEN <<>>
    ELSE IF StartsWith(text, old)
    THEN Replaced(SubSeq(text, Len(old) + 1, Len(text)), old)
    ELSE <<Head(text)>> \o Replaced(Tail(text), old)

\* trace_parser.py line 42, performance_analysis.py line 88.
TimestampOf(name, file) ==
    Replaced(Replaced(Replaced(file, name \o <<"_">>), <<".log">>), <<".json">>)

\* trace_parser.py lines 40-41, performance_analysis.py lines 86-87.
Listed(name) == {f \in directory : Contains(FileName(f), name)}

\* trace_parser.py lines 44-51: the files stored under a timestamp.
LogsOf(name, timestamp) ==
    {f \in Listed(name) :
        f.ext = ".log" /\ TimestampOf(name, FileName(f)) = timestamp}

MetadataOf(name, timestamp) ==
    {f \in Listed(name) :
        f.ext = ".json" /\ TimestampOf(name, FileName(f)) = timestamp}

\* trace_parser.py lines 53-56: the timestamps with a trace and metadata.
ParsedSessions(name) ==
    {timestamp \in {TimestampOf(name, FileName(f)) : f \in Listed(name)} :
        LogsOf(name, timestamp) # {} /\ MetadataOf(name, timestamp) # {}}

\* performance_analysis.py lines 90-95: the logs whose metadata path exists.
AnalysedLogs(name) ==
    {f \in Listed(name) :
        /\ f.ext = ".log"
        /\ \E g \in directory :
              FileName(g) = name \o <<"_">> \o TimestampOf(name, FileName(f))
                                 \o <<".json">>}

InitNames ==
    /\ npc = "writing"
    /\ directory = {}
    /\ trace_file_name \in BenchmarkFileNames
    /\ parsed_from = {}
    /\ analysed_from = {}
    /\ CoreIdle
    /\ ProfileIdle /\ BuildsIdle /\ SamplingIdle

\* The agent of some benchmark writes a file of a session.
WriteFile ==
    /\ npc = "writing"
    /\ Cardinality(directory) < MaxFiles
    /\ \E f \in TraceFiles \ directory : directory' = directory \cup {f}
    /\ UNCHANGED <<npc, trace_file_name, parsed_from, analysed_from, coreVars,
                   prfVars, bldVars, smpVars>>

\* trace_parser.py lines 40-72: os.listdir gives the files in any order,
\* and a file read later replaces the trace stored under its timestamp.
GetTraceData ==
    /\ npc = "writing"
    /\ \E chosen \in [ParsedSessions(trace_file_name) -> directory] :
          /\ \A timestamp \in ParsedSessions(trace_file_name) :
                chosen[timestamp] \in LogsOf(trace_file_name, timestamp)
          /\ parsed_from' =
                {chosen[timestamp] : timestamp \in ParsedSessions(trace_file_name)}
    /\ npc' = "parsed"
    /\ UNCHANGED <<directory, trace_file_name, analysed_from, coreVars, prfVars,
                   bldVars, smpVars>>

\* performance_analysis.py lines 85-95.
BatchProcess ==
    /\ npc = "parsed"
    /\ analysed_from' = AnalysedLogs(trace_file_name)
    /\ npc' = "done"
    /\ UNCHANGED <<directory, trace_file_name, parsed_from, coreVars, prfVars,
                   bldVars, smpVars>>

NextNames == WriteFile \/ GetTraceData \/ BatchProcess

SpecNames == InitNames /\ [][NextNames]_vars

(***************************************************************************)
(* The build functions of BenchmarkExecutor and their history files        *)
(* (benchmark_executor.py lines 398-524).  status is the outcome of the    *)
(* Maven build.                                                            *)
(***************************************************************************)
\* build_history[commit_hash] = status
Put(dict, key, value) ==
    [x \in (DOMAIN dict) \cup {key} |-> IF x = key THEN value ELSE dict[x]]

BuildCall(function, commit_hash, build_anyway, value) ==
    [function |-> function, commit_hash |-> commit_hash,
     build_anyway |-> build_anyway, value |-> value]

InitBuilds ==
    /\ build_history = EmptyDict
    /\ benchmark_build_history = EmptyDict
    /\ performed = [project |-> EmptyDict, benchmarks |-> EmptyDict]
    /\ last_call = EmptyDict
    /\ CoreIdle
    /\ ProfileIdle /\ NamesIdle /\ SamplingIdle

\* Lines 398-433.
BuildProject ==
    /\ \E commit_hash \in Commits, build_anyway \in BOOLEAN, status \in BOOLEAN :
          IF commit_hash \in DOMAIN build_history /\ ~build_anyway
          THEN /\ last_call' = BuildCall("__build_project", commit_hash,
                                         build_anyway, build_history[commit_hash])
               /\ UNCHANGED <<build_history, performed>>
          ELSE /\ build_history' = Put(build_history, commit_hash, status)
               /\ performed' =
                     [performed EXCEPT !.project = Put(@, commit_hash, status)]
               /\ last_call' = BuildCall("__build_project", commit_hash,
                                         build_anyway, status)
    /\ UNCHANGED <<benchmark_build_history, coreVars, prfVars, namVars, smpVars>>

\* Lines 435-482; line 473 stores True.
BuildBenchmarks ==
    /\ \E commit_hash \in Commits, build_anyway \in BOOLEAN, status \in BOOLEAN :
          IF commit_hash \in DOMAIN benchmark_build_history /\ ~build_anyway
          THEN /\ last_call' = BuildCall("__build_benchmarks", commit_hash,
                                         build_anyway,
                                         benchmark_build_history[commit_hash])
               /\ UNCHANGED <<benchmark_build_history, performed>>
          ELSE /\ benchmark_build_history' =
                     Put(benchmark_build_history, commit_hash, TRUE)
               /\ performed' =
                     [performed EXCEPT !.benchmarks = Put(@, commit_hash, status)]
               /\ last_call' = BuildCall("__build_benchmarks", commit_hash,
                                         build_anyway, status)
    /\ UNCHANGED <<build_history, coreVars, prfVars, namVars, smpVars>>

\* Lines 484-524.
BuildBenchmarksWithModule ==
    /\ \E commit_hash \in Commits, build_anyway \in BOOLEAN, status \in BOOLEAN :
          IF commit_hash \in DOMAIN benchmark_build_history /\ ~build_anyway
          THEN /\ last_call' = BuildCall("__build_benchmarks_with_module",
                                         commit_hash, build_anyway,
                                         benchmark_build_history[commit_hash])
               /\ UNCHANGED <<benchmark_build_history, performed>>
          ELSE /\ benchmark_build_history' =
                     Put(benchmark_build_history, commit_hash, status)
               /\ performed' =
                     [performed EXCEPT !.benchmarks = Put(@, commit_hash, status)]
               /\ last_call' = BuildCall("__build_benchmarks_with_module",
                                         commit_hash, build_anyway, status)
    /\ UNCHANGED <<build_history, coreVars, prfVars, namVars, smpVars>>

NextBuilds == BuildProject \/ BuildBenchmarks \/ BuildBenchmarksWithModule

SpecBuilds == InitBuilds /\ [][NextBuilds]_vars

(***************************************************************************)
(* The loop of Pipeline.run over the candidate commits (pipeline.py lines  *)
(* 152-239) with Sampling.sample (sampling_service.py).  Candidates are    *)
(* named by their index in candidate_commits.                              *)
(***************************************************************************)
\* sampling_service.py lines 10-17 with Z = 1.96, p = 0.5, E = 0.05:
\* ceil(n_0 / (1 + (n_0 - 1) / N)) for n_0 = 384.16, which is
\* ceil(38416 N / (100 N + 38316)).
SampleSize(population_size) ==
    (38416 * population_size + (100 * population_size + 38316) - 1)
        \div (100 * population_size + 38316)

\* The numbers of candidate commits the loop is run on: the small ones and
\* the largest ones within the bound.
CandidateCounts ==
    {n \in 1..MaxCandidates : n <= SmallCandidates \/ n >= MaxCandidates - 1}

\* sampling_service.py lines 19-31: N, sample_size, k, start.
Samplings ==
    {[N |-> n, sample_size |-> SampleSize(n), k |-> n \div SampleSize(n),
      start |-> first, stores |-> stores] :
        n \in CandidateCounts, first \in 0..MaxCandidates, stores \in BOOLEAN}

\* pipeline.py lines 155-158: without sampling.
Unsampled ==
    {[N |-> n, sample_size |-> n, k |-> 1, start |-> 0, stores |-> stores] :
        n \in CandidateCounts, stores \in BOOLEAN}

\* pipeline.py line 167.
Index == (sampling.start + progress.i * sampling.k) % sampling.N

Failures == Cardinality({a \in 1..Len(visits) : ~visits[a].status})

\* pipeline.py lines 152-161; random.randint(0, k-1) of line 29.
InitSampling ==
    /\ spc = "loop"
    /\ sampling \in {x \in Samplings : x.start <= x.k - 1} \cup Unsampled
    /\ progress = [i |-> 0, sampled_count |-> 0]
    /\ performance_db = {}
    /\ visits = <<>>
    /\ CoreIdle
    /\ ProfileIdle /\ NamesIdle /\ BuildsIdle

\* Lines 162-181: the candidate has a stored result and is skipped.
SkipProcessed ==
    /\ spc = "loop"
    /\ progress.sampled_count < sampling.sample_size
    /\ progress.i < sampling.N
    /\ \E db_performance_data \in performance_db :
          /\ db_performance_data.commit = Index
          /\ progress' =
                [i |-> progress.i + 1,
                 sampled_count |->
                     IF db_performance_data.status
                     THEN progress.sampled_count + 1
                     ELSE progress.sampled_count]
          /\ visits' = Append(visits,
                 [index |-> Index, executed |-> FALSE,
                  status |-> db_performance_data.status])
    /\ UNCHANGED <<spc, sampling, performance_db, coreVars, prfVars, namVars,
                   bldVars>>

\* Lines 162-236: the candidate is executed and the result stored.
ExecuteCandidate ==
    /\ spc = "loop"
    /\ progress.sampled_count < sampling.sample_size
    /\ progress.i < sampling.N
    /\ ~\E db_performance_data \in performance_db :
            db_performance_data.commit = Index
    /\ \E executed \in BOOLEAN :
          /\ ~executed => Failures < MaxFailures
          /\ progress' =
                [i |-> progress.i + 1,
                 sampled_count |->
                     IF executed THEN progress.sampled_count + 1
                     ELSE progress.sampled_count]
          /\ performance_db' =
                IF sampling.stores
                THEN performance_db \cup {[commit |-> Index, status |-> executed]}
                ELSE performance_db
          /\ visits' = Append(visits,
                 [index |-> Index, executed |-> TRUE, status |-> executed])
    /\ UNCHANGED <<spc, sampling, coreVars, prfVars, namVars, bldVars>>

\* Line 162: the loop condition is false.
EndLoop ==
    /\ spc = "loop"
    /\ ~(progress.sampled_count < sampling.sample_size /\ progress.i < sampling.N)
    /\ spc' = "done"
    /\ UNCHANGED <<sampling, progress, performance_db, visits, coreVars,
                   prfVars, namVars, bldVars>>

NextSampling == SkipProcessed \/ ExecuteCandidate \/ EndLoop

SpecSampling == InitSampling /\ [][NextSampling]_vars

(***************************************************************************)
(* Trace assembly: _batch_process_traces and _process_trace_file.  A line  *)
(* of a log, and a line the generator yields, is a sequence of characters. *)
(***************************************************************************)
DigitChars == <<"0", "1", "2", "3", "4", "5", "6", "7", "8", "9">>

IsDigit(c) == \E i \in 1..10 : DigitChars[i] = c

DigitValue(c) == (CHOOSE i \in 1..10 : DigitChars[i] = c) - 1

\* int(text) for a text of digits.
RECURSIVE ParseInt(_)
ParseInt(text) ==
    IF text = <<>> THEN 0
    ELSE 10 * ParseInt(SubSeq(text, 1, Len(text) - 1)) + DigitValue(text[Len(text)])

\* str(n).
RECURSIVE FormatInt(_)
FormatInt(n) ==
    IF n < 0 THEN <<"-">> \o FormatInt(-n)
    ELSE IF n < 10 THEN <<DigitChars[n + 1]>>
    ELSE FormatInt(n \div 10) \o <<DigitChars[(n % 10) + 1]>>

\* Short tokens and full signatures of the methods.
Tokens == {<<"a">>, <<"a", "a">>}

Signatures == {<<"f">>, <<"g">>}

Stamps == 0..MaxStamp

Offsets == 0..MaxOffset

\* The line the agent writes for an event: [<ts>] <S|E> <token>.
WireLine(stamp, kind, token) ==
    <<"[">> \o FormatInt(stamp) \o <<"]", " ", kind, " ">> \o token \o <<"\n">>

\* What a log can hold as a line: a whole line, or the beginning of one when
\* the writer was stopped before the end of the line.
LineTexts ==
    UNION {{SubSeq(WireLine(stamp, kind, token), 1, n) :
                n \in 1..Len(WireLine(stamp, kind, token))} :
           stamp \in Stamps, kind \in Kinds, token \in Tokens}

EndsLine(text) == text # <<>> /\ text[Len(text)] = "\n"

MinOf(S) == CHOOSE x \in S : \A y \in S : x <= y

\* Lines 9 and 106: general_pattern.match(line) for \[(\d+)\] (S|E) (.+);
\* the match starts at the first character and . stops at the line break.
GeneralPattern(text) ==
    LET breaks == {i \in 1..Len(text) : text[i] = "\n"}
        line == IF breaks = {} THEN text ELSE SubSeq(text, 1, MinOf(breaks) - 1)
        closes == {i \in 1..Len(line) : line[i] = "]"}
        close == IF closes = {} THEN 0 ELSE MinOf(closes)
    IN IF /\ close >= 3
          /\ Len(line) >= close + 4
          /\ line[1] = "["
          /\ \A i \in 2..(close - 1) : IsDigit(line[i])
          /\ line[close + 1] = " "
          /\ line[close + 2] \in Kinds
          /\ line[close + 3] = " "
       THEN [matched |-> TRUE,
             time |-> SubSeq(line, 2, close - 1),
             start_or_end |-> line[close + 2],
             method |-> SubSeq(line, close + 4, Len(line))]
       ELSE [matched |-> FALSE, time |-> <<>>, start_or_end |-> "", method |-> <<>>]

\* The dictionaries of the metadata: signature -> token, one token a signature.
SignatureHashes ==
    {h \in UNION {[D -> Tokens] : D \in SUBSET Signatures} :
        \A k1, k2 \in DOMAIN h : h[k1] = h[k2] => k1 = k2}

\* Line 102: the dictionary token -> signature.
InvertedHash(method_signature_hash) ==
    [token \in {method_signature_hash[k] : k \in DOMAIN method_signature_hash} |->
        CHOOSE k \in DOMAIN method_signature_hash : method_signature_hash[k] = token]

\* Line 110: method_signature_hash.get(method, method).
Lookup(dictionary, method) ==
    IF method \in DOMAIN dictionary THEN dictionary[method] ELSE method

\* Variant: the time of the line is not adjusted.
AdjustTime_NoOffset(time, log_time_difference) == ParseInt(time)

\* Line 109.
AdjustTime(time, log_time_difference) == ParseInt(time) + log_time_difference

\* Lines 105-111: the lines yielded for one line of the log, none or one.
ProcessTraceLine(text, metadata) ==
    LET match == GeneralPattern(text)
    IN IF match.matched
       THEN << <<"[">>
               \o FormatInt(AdjustTime(match.time, metadata.log_time_difference))
               \o <<"]", " ", match.start_or_end, " ">>
               \o Lookup(InvertedHash(metadata.method_signature_hash), match.method) >>
       ELSE <<>>

NoMetadata == [log_time_difference |-> 0, method_signature_hash |-> EmptyDict]

\* Variant: the log of a session is read whether or not its metadata exist.
SessionIsProcessed_NoMetadataCheck(has_log, has_metadata) == has_log

\* Lines 90 and 94: the file is a log and its metadata file exists.
SessionIsProcessed(has_log, has_metadata) == has_log /\ has_metadata

\* Lines 104-111: the lines yielded for the log of one session.
RECURSIVE ProcessTraceFile(_, _)
ProcessTraceFile(lines, metadata) ==
    IF lines = <<>> THEN <<>>
    ELSE ProcessTraceLine(Head(lines), metadata)
            \o ProcessTraceFile(Tail(lines), metadata)

\* Lines 85-95: the lines yielded for a directory of sessions.
RECURSIVE BatchProcessTraces(_)
BatchProcessTraces(files) ==
    IF files = <<>> THEN <<>>
    ELSE (IF SessionIsProcessed(Head(files).has_log, Head(files).has_metadata)
          THEN ProcessTraceFile(Head(files).lines, Head(files).metadata)
          ELSE <<>>)
            \o BatchProcessTraces(Tail(files))

LinesRead == SumSeq([i \in 1..Len(trace_files) |-> Len(trace_files[i].lines)])

\* Line 86: the listing starts.
InitAssembler ==
    /\ bpc = "listing"
    /\ trace_files = <<>>
    /\ emitted = <<>>
    /\ pc = "idle"
    /\ benchmarks = <<>>
    /\ all_methods = [c \in Commits |-> {}]
    /\ sorted_benchmarks = <<>>
    /\ selected_benchmarks = [c \in Commits |-> EmptyDict]
    /\ covered_methods = [c \in Commits |-> {}]
    /\ best_benchmark = NoBenchmark
    /\ iterations = 0
    /\ ExecuteIdle
    /\ AnalysisIdle
    /\ OutliersIdle
    /\ ExtIdle

\* Lines 86-95: the log read so far is exhausted (or none was open) and the
\* loop reaches the files of the next session of the sorted listing; the
\* metadata are read only when the log is to be processed.
OpenSession ==
    /\ bpc \in {"listing", "reading"}
    /\ Len(trace_files) < MaxSessions
    /\ \E has_log, has_metadata \in BOOLEAN :
       \E log_time_difference \in Offsets, method_signature_hash \in SignatureHashes :
          /\ has_log \/ has_metadata
          /\ ~(has_log /\ has_metadata) =>
                /\ log_time_difference = NoMetadata.log_time_difference
                /\ method_signature_hash = NoMetadata.method_signature_hash
          /\ trace_files' = Append(trace_files,
                 [has_log |-> has_log, has_metadata |-> has_metadata,
                  metadata |-> [log_time_difference |-> log_time_difference,
                                method_signature_hash |-> method_signature_hash],
                  lines |-> <<>>])
          /\ bpc' = IF SessionIsProcessed(has_log, has_metadata)
                    THEN "reading" ELSE "listing"
    /\ UNCHANGED <<emitted, selVars, exeVars, anaVars, outVars, extVars>>

\* Lines 104-111: the next line of the open log is read; a line that does
\* not end with a line break is the last line of its log.
ReadLine ==
    /\ bpc = "reading"
    /\ LinesRead < MaxLines
    /\ LET current == trace_files[Len(trace_files)]
       IN /\ current.lines # <<>> => EndsLine(current.lines[Len(current.lines)])
          /\ \E text \in LineTexts :
                /\ trace_files' = [trace_files EXCEPT
                       ![Len(trace_files)].lines = Append(@, text)]
                /\ emitted' = emitted \o ProcessTraceLine(text, current.metadata)
    /\ UNCHANGED <<bpc, selVars, exeVars, anaVars, outVars, extVars>>

\* Line 86: the listing is exhausted.
EndOfListing ==
    /\ bpc \in {"listing", "reading"}
    /\ bpc' = "done"
    /\ UNCHANGED <<trace_files, emitted, selVars, exeVars, anaVars, outVars, extVars>>

NextAssembler == OpenSession \/ ReadLine \/ EndOfListing

SpecAssembler == InitAssembler /\ [][NextAssembler]_vars

(***************************************************************************)
(* SpecSelector.                                                           *)
(***************************************************************************)
InitSelector ==
    /\ \E n \in BenchmarkNames : benchmarks \in BenchmarkDicts(n)
    /\ all_methods = AllMethods(benchmarks)
    /\ sorted_benchmarks = InitialOrder(benchmarks)
    /\ selected_benchmarks = [c \in Commits |-> EmptyDict]
    /\ covered_methods = [c \in Commits |-> {}]
    /\ best_benchmark = NoBenchmark
    /\ iterations = 0
    /\ pc = "loop"
    /\ ExecuteIdle
    /\ AnalysisIdle
    /\ OutliersIdle
    /\ AssemblerIdle
    /\ ExtIdle

\* Lines 761-814: one iteration of the while loop.  Line 772 on an empty
\* list raises IndexError.
Iterate ==
    /\ pc = "loop"
    /\ NotAllCovered(covered_methods, all_methods)
    /\ iterations <= NumBenchmarks
    /\ iterations' = iterations + 1
    /\ IF sorted_benchmarks = <<>>
       THEN /\ pc' = "error"
            /\ UNCHANGED <<sorted_benchmarks, selected_benchmarks,
                           covered_methods, best_benchmark>>
       ELSE LET s == SortBenchmarks(benchmarks, covered_methods, sorted_benchmarks)
                best == ChooseBest(benchmarks, covered_methods, s)
                new == NewMethods(benchmarks, covered_methods, best)
                added_to_selected == \E c \in Commits : new[c] # {}
            IN /\ best_benchmark' = best
               /\ selected_benchmarks' =
                     AddSelected(benchmarks, selected_benchmarks, best, new)
               /\ covered_methods' =
                     [c \in Commits |-> covered_methods[c] \cup new[c]]
               /\ sorted_benchmarks' =
                     IF added_to_selected
                     THEN SelectSeqBy(s, Range(s) \ {best}) ELSE s
               /\ pc' = pc
    /\ UNCHANGED <<benchmarks, all_methods, exeVars, anaVars, outVars, asmVars, extVars>>

\* Line 816: the loop condition is false, the selection is returned.
Return ==
    /\ pc = "loop"
    /\ ~NotAllCovered(covered_methods, all_methods)
    /\ pc' = "done"
    /\ UNCHANGED <<benchmarks, all_methods, sorted_benchmarks,
                   selected_benchmarks, covered_methods, best_benchmark,
                   iterations, exeVars, anaVars, outVars, asmVars, extVars>>

NextSelector == Iterate \/ Return

SpecSelector == InitSelector /\ [][NextSelector]_vars

(***************************************************************************)
(* BenchmarkExecutor.execute, lines 285-309: the benchmarks that target    *)
(* the changed methods.  A method signature is (class, name, parameters);  *)
(* an empty class stands for a signature without a dot.                    *)
(***************************************************************************)
ChangedSignatures ==
    {[cls |-> "K", name |-> "f", params |-> "int"],
     [cls |-> "K", name |-> "f", params |-> ""],
     [cls |-> "", name |-> "g", params |-> ""]}

\* Line 673 keeps what precedes the parameter list of a probed method.
ProbedSignatures ==
    {[cls |-> "K", name |-> "f", params |-> ""],
     [cls |-> "L", name |-> "g", params |-> ""]}

\* Lines 684-711: the parameters are dropped, the class and name are kept.
NormalizeMethodName(method) == [cls |-> method.cls, name |-> method.name]

\* Lines 714-731: the changed methods of each commit the benchmark reaches.
ChosenMethods(changed, methods) ==
    LET tf == {NormalizeMethodName(f) : f \in methods}
        tf_reduced == {m.name : m \in tf}
    IN [c \in Commits |->
          {method \in changed[c] :
              LET normalized == NormalizeMethodName(method)
              IN IF normalized.cls # ""
                 THEN normalized \in tf
                 ELSE normalized.name \in tf_reduced}]

\* Lines 287-301: benchmarks that target no changed method are left out;
\* the chosen ones keep the order of their names.
ChosenBenchmarks(changed, probed) ==
    LET targeting == SelectSeq([i \in 1..Len(probed) |-> i],
            LAMBDA i : \E c \in Commits :
                ChosenMethods(changed, probed[i].methods)[c] # {})
    IN [k \in 1..Len(targeting) |->
          [targets |-> ChosenMethods(changed, probed[targeting[k]].methods),
           duration |-> probed[targeting[k]].duration]]

InitExecute ==
    /\ pc = "targets"
    /\ changed_methods \in [Commits -> SUBSET ChangedSignatures]
    /\ \E n \in 1..MaxProbed :
          target_methods \in
              [1..n -> [methods : SUBSET ProbedSignatures, duration : Durations]]
    /\ benchmarks = <<>>
    /\ all_methods = [c \in Commits |-> {}]
    /\ sorted_benchmarks = <<>>
    /\ selected_benchmarks = [c \in Commits |-> EmptyDict]
    /\ covered_methods = [c \in Commits |-> {}]
    /\ best_benchmark = NoBenchmark
    /\ iterations = 0
    /\ AnalysisIdle
    /\ OutliersIdle
    /\ AssemblerIdle
    /\ ExtIdle

\* Lines 285-309 and 739-758: the chosen benchmarks are computed; with none
\* the commit is skipped, otherwise the selector starts on them.
ChooseBenchmarks ==
    /\ pc = "targets"
    /\ LET chosen_benchmarks == ChosenBenchmarks(changed_methods, target_methods)
       IN /\ benchmarks' = chosen_benchmarks
          /\ all_methods' = AllMethods(chosen_benchmarks)
          /\ sorted_benchmarks' = InitialOrder(chosen_benchmarks)
          /\ pc' = IF chosen_benchmarks = <<>> THEN "skipped" ELSE "loop"
    /\ UNCHANGED <<selected_benchmarks, covered_methods, best_benchmark,
                   iterations, exeVars, anaVars, outVars, asmVars, extVars>>

NextExecute == ChooseBenchmarks \/ Iterate \/ Return

SpecExecute == InitExecute /\ [][NextExecute]_vars

(***************************************************************************)
(* Properties of the selector.                                             *)
(***************************************************************************)
\* The benchmarks that appear in the returned dictionary.
SelectedSet == UNION {DOMAIN selected_benchmarks[c] : c \in Commits}

\* The methods assigned for commit c in the returned dictionary.
Assigned(c) ==
    UNION {selected_benchmarks[c][b].targets : b \in DOMAIN selected_benchmarks[c]}

\* The methods some candidate benchmark reaches for commit c.
TargetSet(c) == UNION {benchmarks[b].targets[c] : b \in DOMAIN benchmarks}

Covers(S) ==
    \A c \in Commits : TargetSet(c) \subseteq UNION {benchmarks[b].targets[c] : b \in S}

IsIterateStep == iterations' = iterations + 1 /\ pc' = "loop"

MaxNewCoverage(s, covered) ==
    CHOOSE n \in 0..(2 * NumMethods) :
        /\ \E b \in Range(s) : NewCoverageCount(benchmarks, covered, b) = n
        /\ \A b \in Range(s) : NewCoverageCount(benchmarks, covered, b) <= n

\* C1: when the selector returns, for every commit the union of the method
\* sets assigned to the selected benchmarks is the commit's full target set.
C1_FullCoverage ==
    pc = "done" => \A c \in Commits : Assigned(c) = TargetSet(c)

C1_Witness ==
    /\ pc = "done"
    /\ Cardinality(SelectedSet) >= 2
    /\ \A c \in Commits : TargetSet(c) = Methods /\ Assigned(c) = Methods

\* C2: the benchmark committed by an iteration has the maximum new coverage
\* count among the benchmarks still under consideration, whatever its
\* duration; a fuller but at least three times slower benchmark beats the
\* faster ones (B3={foo,bar}@3 against B1={foo}@1 and B2={bar}@1).
C2_MaxCoverageChosen ==
    [][IsIterateStep =>
        \A b \in Range(sorted_benchmarks) :
            NewCoverageCount(benchmarks, covered_methods, b)
                <= NewCoverageCount(benchmarks, covered_methods, best_benchmark')]_vars

C2_Witness ==
    /\ pc = "done"
    /\ iterations = 1
    /\ DOMAIN benchmarks = 1..3
    /\ benchmarks[1].targets["current"] = {1} /\ benchmarks[1].duration = 1
    /\ benchmarks[2].targets["current"] = {2} /\ benchmarks[2].duration = 1
    /\ benchmarks[3].targets["current"] = {1, 2} /\ benchmarks[3].duration = 3
    /\ \A b \in 1..3 : benchmarks[b].targets["previous"] = {}
    /\ best_benchmark = 3
    /\ SelectedSet = {3}

\* C3: an iteration never removes a method from a covered set and strictly
\* enlarges the covered set of some commit; the loop runs at most
\* numBenchmarks iterations and never indexes an empty candidate list.
C3_MonotonicBounded ==
    /\ [](pc # "error" /\ iterations <= Cardinality(DOMAIN benchmarks))
    /\ [][/\ \A c \in Commits : covered_methods[c] \subseteq covered_methods'[c]
          /\ iterations' # iterations =>
                \E c \in Commits : covered_methods'[c] # covered_methods[c]]_vars

C3_Witness ==
    /\ pc = "done"
    /\ iterations = NumBenchmarks
    /\ Cardinality(SelectedSet) = NumBenchmarks

\* C4 as stated: no set of candidate benchmarks with fewer members than the
\* returned set covers every target method of every commit.
C4_Minimal ==
    pc = "done" =>
        ~\E S \in SUBSET (DOMAIN benchmarks) :
            Cardinality(S) < Cardinality(SelectedSet) /\ Covers(S)

\* C4 amended: the returned set is a cover in which every benchmark is
\* assigned at least one method; it has a single member whenever a single
\* benchmark suffices, and otherwise it may exceed the minimum.
C4_GreedyCover ==
    pc = "done" =>
        /\ Covers(SelectedSet)
        /\ \A c \in Commits : \A b \in DOMAIN selected_benchmarks[c] :
                selected_benchmarks[c][b].targets # {}
        /\ (\E b \in DOMAIN benchmarks : Covers({b})) => Cardinality(SelectedSet) = 1

C4_Witness ==
    /\ pc = "done"
    /\ Cardinality(SelectedSet) = 3
    /\ \E S \in SUBSET (DOMAIN benchmarks) : Cardinality(S) = 2 /\ Covers(S)

\* C5: when a changed method of a commit is reached by no available
\* benchmark, the selection hands back the partial assignment together with
\* the changed methods left uncovered.  The dictionary of assignments is
\* the only value the selector returns, so a changed method is handed back
\* only if it is assigned in it.
C5_UncoveredSurfaced ==
    pc = "done" =>
        \A c \in Commits : \A method \in changed_methods[c] : method \in Assigned(c)


\* C6: among the remaining benchmarks tied for the maximum new coverage
\* count the iteration commits one of lowest duration; of two benchmarks
\* with identical targets and different durations the slower one is never
\* selected, and when they are the whole input the faster one is.
C6_TieTowardLowerDuration ==
    /\ [][IsIterateStep =>
            \A b \in Range(sorted_benchmarks) :
                NewCoverageCount(benchmarks, covered_methods, b)
                    = MaxNewCoverage(sorted_benchmarks, covered_methods)
                => benchmarks[best_benchmark'].duration <= benchmarks[b].duration]_vars
    /\ [](pc = "done" =>
            \A a, b \in DOMAIN benchmarks :
                /\ benchmarks[a].targets = benchmarks[b].targets
                /\ benchmarks[a].duration < benchmarks[b].duration
                => /\ b \notin SelectedSet
                   /\ DOMAIN benchmarks = {a, b} => SelectedSet = {a})

C6_Witness ==
    /\ pc = "done"
    /\ DOMAIN benchmarks = {1, 2}
    /\ benchmarks[1].targets = benchmarks[2].targets
    /\ benchmarks[2].duration < benchmarks[1].duration
    /\ SelectedSet = {2}

\* C7: if a single benchmark reaches every target of every commit, the
\* selector picks exactly one such benchmark, assigns it every target of
\* every commit and ends after one iteration.
C7_SingleFullCover ==
    pc = "done" /\ (\E b \in DOMAIN benchmarks : Covers({b})) =>
        /\ iterations = 1
        /\ SelectedSet = {best_benchmark}
        /\ Covers({best_benchmark})
        /\ \A c \in Commits :
              TargetSet(c) # {} =>
                /\ DOMAIN selected_benchmarks[c] = {best_benchmark}
                /\ selected_benchmarks[c][best_benchmark].targets = TargetSet(c)
        /\ \A b \in DOMAIN benchmarks :
              (\A x \in DOMAIN benchmarks : Covers({x}) => x = b) =>
                  best_benchmark = b

C7_Witness ==
    /\ pc = "done"
    /\ iterations = 1
    /\ DOMAIN benchmarks = 1..3
    /\ Covers({2}) /\ ~Covers({1}) /\ ~Covers({3})
    /\ benchmarks[2].duration > 2 * benchmarks[1].duration
    /\ SelectedSet = {2}
    /\ \A c \in Commits : TargetSet(c) = Methods

(***************************************************************************)
(* Properties of the analysis.  The matched invocations of a trace are     *)
(* found by replaying the ENTER/EXIT lines on a stack of line numbers.     *)
(***************************************************************************)
RECURSIVE MatchFrom(_, _, _, _)
MatchFrom(i, open, found, discarded) ==
    IF i > Len(trace)
    THEN [found |-> found, open |-> open, discarded |-> discarded]
    ELSE IF trace[i].kind = "S"
    THEN MatchFrom(i + 1, Append(open, i), found, discarded)
    ELSE IF open # <<>> /\ trace[open[Len(open)]].function = trace[i].function
    THEN MatchFrom(i + 1, SubSeq(open, 1, Len(open) - 1),
                   Append(found, [enter |-> open[Len(open)], exit |-> i,
                                  parent |-> IF Len(open) > 1
                                             THEN open[Len(open) - 1] ELSE 0]),
                   discarded)
    ELSE MatchFrom(i + 1, open, found, discarded + 1)

Matching == MatchFrom(1, <<>>, <<>>, 0)

\* The matched invocations, in the order of their EXIT lines.
Invocations == Matching.found

\* Every EXIT matches the top of the stack and no call is left open.
Balanced == Matching.open = <<>> /\ Matching.discarded = 0

Duration(inv) == trace[inv.exit].time - trace[inv.enter].time

\* The durations of the matched invocations of f, in order.
DurationsOf(f) ==
    LET own == SelectSeq(Invocations, LAMBDA inv : trace[inv.enter].function = f)
    IN [k \in 1..Len(own) |-> Duration(own[k])]

\* The total time of the calls invoked directly by an invocation of f.
ChildrenTime(f) ==
    LET children == SelectSeq(Invocations,
            LAMBDA inv : inv.parent # 0 /\ trace[inv.parent].function = f)
    IN SumSeq([k \in 1..Len(children) |-> Duration(children[k])])

NothingDiscarded(f) ==
    /\ RemoveOutliers(total_times[f]) = total_times[f]
    /\ RemoveOutliers(self_times[f]) = self_times[f]

\* C8: for a trace of one ENTER followed by one EXIT of the same method the
\* profile has total = self = exit - enter and call_count = 1.
C8_SingleCall ==
    /\ apc = "done"
    /\ Len(trace) = 2
    /\ trace[1].kind = "S" /\ trace[2].kind = "E"
    /\ trace[1].function = trace[2].function
    => LET p == output[trace[1].function]
       IN /\ p # NoProfile
          /\ p.total_execution_time = trace[2].time - trace[1].time
          /\ p.self_execution_time = trace[2].time - trace[1].time
          /\ p.call_count = 1

C8_Witness ==
    /\ apc = "done"
    /\ Len(trace) = 2
    /\ trace[1].kind = "S" /\ trace[2].kind = "E"
    /\ trace[1].function = trace[2].function
    /\ trace[2].time > trace[1].time
    /\ output[trace[1].function].total_execution_time = 1
    /\ output[trace[1].function].call_count = 1

\* C9 as stated: for every balanced trace the reported self time of each
\* method is its reported total time minus the total times of the calls
\* invoked directly by its invocations.
C9_ReportedSelfTime ==
    apc = "done" /\ Balanced =>
        \A f \in Methods :
            output[f] # NoProfile =>
                output[f].self_execution_time
                    = output[f].total_execution_time - ChildrenTime(f)

\* C9 amended: for every balanced trace the self-time samples recorded for
\* a method add up to its total-time samples minus the total times of the
\* calls its invocations invoked directly; the reported values satisfy the
\* same equation when outlier removal discards no sample of the method.
C9_RecordedSelfTime ==
    apc = "done" /\ Balanced =>
        \A f \in Methods :
            /\ SumSeq(self_times[f]) = SumSeq(total_times[f]) - ChildrenTime(f)
            /\ output[f] # NoProfile /\ NothingDiscarded(f) =>
                    output[f].self_execution_time
                        = output[f].total_execution_time - ChildrenTime(f)

\* A enters, B enters, B exits, A exits.
C9_Witness ==
    /\ apc = "done"
    /\ Balanced
    /\ [i \in 1..Len(trace) |-> trace[i].kind] = <<"S", "S", "E", "E">>
    /\ [i \in 1..Len(trace) |-> trace[i].function] = <<1, 2, 2, 1>>
    /\ NothingDiscarded(1) /\ NothingDiscarded(2)
    /\ output[2].self_execution_time = output[2].total_execution_time
    /\ output[2].total_execution_time > 0
    /\ output[1].self_execution_time
          = output[1].total_execution_time - output[2].total_execution_time
    /\ output[1].self_execution_time > 0

\* C10 as stated: the reported total time of a method is the sum of
\* exit - enter over all its matched invocations.
C10_TotalOfAllInvocations ==
    apc = "done" =>
        \A f \in Methods :
            output[f] # NoProfile =>
                output[f].total_execution_time = SumSeq(DurationsOf(f))

\* C10 amended: the total-time samples of a method are the exit - enter of
\* its matched invocations, and the reported total time is the sum of the
\* samples outlier removal keeps, 0 when it leaves no total-time sample or
\* no self-time sample.
C10_TotalOfKeptInvocations ==
    apc = "done" =>
        \A f \in Methods :
            /\ total_times[f] = DurationsOf(f)
            /\ output[f] = NoProfile <=> DurationsOf(f) = <<>>
            /\ output[f] # NoProfile =>
                 output[f].total_execution_time =
                    IF /\ RemoveOutliers(DurationsOf(f)) # <<>>
                       /\ RemoveOutliers(self_times[f]) # <<>>
                    THEN SumSeq(RemoveOutliers(DurationsOf(f)))
                    ELSE 0

C10_Witness ==
    /\ apc = "done"
    /\ \E f \in Methods :
          /\ Len(DurationsOf(f)) = 2
          /\ DurationsOf(f)[1] # DurationsOf(f)[2]
          /\ output[f].call_count = 2
          /\ output[f].total_execution_time = SumSeq(DurationsOf(f))
          /\ output[f].total_execution_time > 0

\* C11: an EXIT line that does not name the function on top of the call
\* stack, or that arrives on an empty stack, changes neither the stack (its
\* frames and their child times) nor the recorded samples, and analyze()
\* goes on reading.
C11_MismatchedExitDiscarded ==
    [][(/\ Len(trace') = Len(trace) + 1
        /\ trace'[Len(trace')].kind = "E"
        /\ \/ call_stack = <<>>
           \/ call_stack[Len(call_stack)].function # trace'[Len(trace')].function)
       => /\ UNCHANGED <<call_stack, total_times, self_times, call_counts>>
          /\ apc' = "reading"]_vars

\* EXIT of 1 on the empty stack, ENTER 1, EXIT of 2 under 1, EXIT of 1.
C11_Witness ==
    /\ [i \in 1..Len(trace) |-> trace[i].kind] = <<"E", "S", "E", "E">>
    /\ [i \in 1..Len(trace) |-> trace[i].function] = <<1, 1, 2, 1>>
    /\ Matching.discarded = 2
    /\ Len(total_times[1]) = 1
    /\ total_times[2] = <<>>
    /\ call_stack = <<>>

(***************************************************************************)
(* The matching the specification asks for: the stack of open calls is     *)
(* emptied whenever the next line belongs to another session.              *)
(***************************************************************************)
RECURSIVE SessionMatchFrom(_, _, _)
SessionMatchFrom(i, open, found) ==
    IF i > Len(trace) THEN found
    ELSE LET kept == IF open # <<>> /\ trace[open[Len(open)]].session # trace[i].session
                     THEN <<>> ELSE open
         IN IF trace[i].kind = "S"
            THEN SessionMatchFrom(i + 1, Append(kept, i), found)
            ELSE IF kept # <<>> /\ trace[kept[Len(kept)]].function = trace[i].function
            THEN SessionMatchFrom(i + 1, SubSeq(kept, 1, Len(kept) - 1),
                     Append(found, [enter |-> kept[Len(kept)], exit |-> i,
                                    parent |-> IF Len(kept) > 1
                                               THEN kept[Len(kept) - 1] ELSE 0]))
            ELSE SessionMatchFrom(i + 1, kept, found)

SessionInvocations == SessionMatchFrom(1, <<>>, <<>>)

\* The self time of an invocation: its duration minus its direct children's.
SessionSelfTime(inv) ==
    LET children == SelectSeq(SessionInvocations, LAMBDA c : c.parent = inv.enter)
    IN Duration(inv) - SumSeq([k \in 1..Len(children) |-> Duration(children[k])])

SessionTotalsOf(f) ==
    LET own == SelectSeq(SessionInvocations, LAMBDA inv : trace[inv.enter].function = f)
    IN [k \in 1..Len(own) |-> Duration(own[k])]

SessionSelfsOf(f) ==
    LET own == SelectSeq(SessionInvocations, LAMBDA inv : trace[inv.enter].function = f)
    IN [k \in 1..Len(own) |-> SessionSelfTime(own[k])]

\* C12 as stated: the call stack is emptied between sessions, so the samples
\* recorded are those of the calls entered and exited within one session,
\* with the child times of that session only.
C12_SessionsSegregated ==
    /\ [][session' # session => call_stack' = <<>>]_vars
    /\ [](\A f \in Methods :
            /\ total_times[f] = SessionTotalsOf(f)
            /\ self_times[f] = SessionSelfsOf(f))

\* C13: analyze() returns a profile for a function exactly when the function
\* completed a matched ENTER/EXIT pair.
C13_ProfileIffMatched ==
    apc = "done" =>
        \A f \in Methods :
            output[f] # NoProfile
                <=> \E k \in 1..Len(Invocations) :
                        trace[Invocations[k].enter].function = f

\* ENTER 1, EXIT of 2 (discarded), ENTER 2, EXIT 2: 1 stays open.
C13_Witness ==
    /\ apc = "done"
    /\ [i \in 1..Len(trace) |-> trace[i].kind] = <<"S", "E", "S", "E">>
    /\ [i \in 1..Len(trace) |-> trace[i].function] = <<1, 2, 2, 2>>
    /\ call_counts[1] = 1
    /\ output[1] = NoProfile
    /\ output[2] # NoProfile

EnterCount(f) ==
    Cardinality({i \in 1..Len(trace) : trace[i].kind = "S" /\ trace[i].function = f})

\* C14 as stated: the call_count reported for a function is the number of
\* its ENTER lines.
C14_CallCountIsEnterCount ==
    apc = "done" =>
        \A f \in Methods :
            output[f] # NoProfile => output[f].call_count = EnterCount(f)

\* C14 amended: call_counts counts the ENTER lines of a function; the
\* reported call_count is the number of total-time samples outlier removal
\* keeps (0 when no total-time or no self-time sample is kept), never more
\* than the ENTER lines, and equal to them when the trace is balanced and no
\* sample of the function is discarded.
C14_CallCountOfKeptSamples ==
    apc = "done" =>
        \A f \in Methods :
            /\ call_counts[f] = EnterCount(f)
            /\ output[f] # NoProfile =>
                 /\ output[f].call_count =
                       IF /\ RemoveOutliers(DurationsOf(f)) # <<>>
                          /\ RemoveOutliers(self_times[f]) # <<>>
                       THEN Len(RemoveOutliers(DurationsOf(f)))
                       ELSE 0
                 /\ output[f].call_count <= call_counts[f]
                 /\ Balanced /\ NothingDiscarded(f) =>
                        output[f].call_count = call_counts[f]

\* A function entered twice with one matched call.
C14_Witness ==
    /\ apc = "done"
    /\ \E f \in Methods :
          /\ call_counts[f] = 2
          /\ EnterCount(f) = 2
          /\ output[f] # NoProfile
          /\ output[f].call_count = 1

\* C17: a function whose total-time samples (or whose self-time samples)
\* are all discarded by outlier removal is in the output with total, self,
\* average, cumulative, min and max equal to 0 and call_count 0.
C17_AllDiscardedZeroProfile ==
    apc = "done" =>
        \A f \in Methods :
            /\ DurationsOf(f) # <<>>
            /\ \/ RemoveOutliers(total_times[f]) = <<>>
               \/ RemoveOutliers(self_times[f]) = <<>>
            => /\ output[f] # NoProfile
               /\ output[f].total_execution_time = 0
               /\ output[f].self_execution_time = 0
               /\ output[f].average_self_time[1] = 0
               /\ output[f].cumulative_execution_time = 0
               /\ output[f].min_execution_time = 0
               /\ output[f].max_execution_time = 0
               /\ output[f].call_count = 0

\* Two calls of the same duration: both samples are discarded.
C17_Witness ==
    /\ apc = "done"
    /\ \E f \in Methods :
          /\ Len(DurationsOf(f)) = 2
          /\ DurationsOf(f)[1] > 0
          /\ RemoveOutliers(total_times[f]) = <<>>
          /\ output[f] = ZeroProfile

(***************************************************************************)
(* Properties of the outlier filter.                                       *)
(***************************************************************************)
\* |z| >= 3.0 for a sample of a list with a non-zero standard deviation.
ZScoreAtLeastThreshold(samples, x) ==
    /\ SumSquaredDeviations(samples) > 0
    /\ Len(samples) * Deviation(samples, x) * Deviation(samples, x)
          >= Z_THRESHOLD * Z_THRESHOLD * SumSquaredDeviations(samples)

\* C15 as stated: _remove_outliers returns, in order, the samples that are
\* not at |z| >= 3.0; samples that do not deviate from the mean are kept, and
\* a list of fewer than 2 samples is returned unchanged.
C15_KeepsBelowThreshold ==
    opc # "start" =>
        cleaned = IF Len(raw_data) < 2 THEN raw_data
                  ELSE SelectSeq(raw_data, LAMBDA x : ~ZScoreAtLeastThreshold(raw_data, x))

\* C16 as stated: filtering the filtered list changes nothing.
C16_Idempotent ==
    opc = "twice" => recleaned = cleaned

\* C16 amended: on a list of at most 9 samples the second pass changes
\* nothing, and the first pass keeps every sample or, when the 2 or more
\* samples are all equal, none.
C16_IdempotentUpToNine ==
    opc = "twice" /\ Len(raw_data) <= 9 =>
        /\ recleaned = cleaned
        /\ cleaned = IF Len(raw_data) >= 2 /\ Cardinality(Range(raw_data)) = 1
                     THEN <<>> ELSE raw_data

C16_Witness ==
    /\ opc = "twice"
    /\ Len(raw_data) = 9
    /\ Cardinality(Range(raw_data)) = 2
    /\ cleaned = raw_data
    /\ recleaned = raw_data

(***************************************************************************)
(* Properties of the trace assembly.  The wire grammar is                  *)
(* [<ts>] <S|E> <token>, with or without the line break.                   *)
(***************************************************************************)
WireBody(stamp, kind, token) ==
    <<"[", DigitChars[stamp + 1], "]", " ", kind, " ">> \o token

WireFields == [stamp : Stamps, kind : Kinds, token : Tokens]

HasFields(text, f) ==
    \/ text = WireBody(f.stamp, f.kind, f.token)
    \/ text = WireBody(f.stamp, f.kind, f.token) \o <<"\n">>

InWireGrammar(text) == \E f \in WireFields : HasFields(text, f)

FieldsOf(text) == CHOOSE f \in WireFields : HasFields(text, f)

\* The full signature whose short token is the token, or the token itself.
SignatureOf(method_signature_hash, token) ==
    IF \E sig \in DOMAIN method_signature_hash : method_signature_hash[sig] = token
    THEN CHOOSE sig \in DOMAIN method_signature_hash : method_signature_hash[sig] = token
    ELSE token

ExpectedOfSession(file) ==
    LET good == SelectSeq(file.lines, InWireGrammar)
    IN [k \in 1..Len(good) |->
          [time |-> FieldsOf(good[k]).stamp + file.metadata.log_time_difference,
           kind |-> FieldsOf(good[k]).kind,
           method |-> SignatureOf(file.metadata.method_signature_hash,
                                  FieldsOf(good[k]).token)]]

RECURSIVE ExpectedEvents(_)
ExpectedEvents(files) ==
    IF files = <<>> THEN <<>>
    ELSE ExpectedOfSession(Head(files)) \o ExpectedEvents(Tail(files))

\* The events _process_line reads from the yielded lines.
EmittedEvents ==
    [k \in 1..Len(emitted) |->
        [time |-> ParseInt(GeneralPattern(emitted[k]).time),
         kind |-> GeneralPattern(emitted[k]).start_or_end,
         method |-> GeneralPattern(emitted[k]).method]]

\* C18: the yielded lines are, in line order, one event for every line of a
\* processed log that is in the wire grammar, with the kind of the line, the
\* time of the line plus the log_time_difference of the session's own
\* metadata, and the signature the session's dictionary gives for the token,
\* or the token itself when the dictionary has none.
C18_OneEventPerWireLine ==
    /\ \A k \in 1..Len(emitted) : GeneralPattern(emitted[k]).matched
    /\ EmittedEvents = ExpectedEvents(trace_files)

\* Two sessions with different offsets, one line each: a token the
\* dictionary knows and a token it does not know.
C18_Witness ==
    /\ bpc = "done"
    /\ Len(trace_files) = 2
    /\ trace_files[1].metadata.log_time_difference
          # trace_files[2].metadata.log_time_difference
    /\ Len(trace_files[1].lines) = 1 /\ Len(trace_files[2].lines) = 1
    /\ Len(emitted) = 2
    /\ EmittedEvents[1].method \in Signatures
    /\ EmittedEvents[2].method \in Tokens
    /\ EmittedEvents[1].time = 2
    /\ EmittedEvents[2].time = 1

\* A session with its log, its metadata and at least one line in the log.
IsCompleteSession(file) ==
    file.has_log /\ file.has_metadata /\ file.lines # <<>>

\* C19: the yielded lines are those of the directory without the sessions
\* that have no metadata file, no log or an empty log.
C19_SkippedSessionsLeaveNoTrace ==
    emitted = BatchProcessTraces(SelectSeq(trace_files, IsCompleteSession))

\* A log without metadata, then a complete session that yields two lines.
C19_Witness ==
    /\ bpc = "done"
    /\ Len(trace_files) = 2
    /\ trace_files[1].has_log /\ ~trace_files[1].has_metadata
    /\ IsCompleteSession(trace_files[2])
    /\ Len(emitted) = 2

\* The directory without the final line of every log that lacks its line
\* break.
WithoutTruncatedLine(file) ==
    IF file.lines # <<>> /\ ~EndsLine(file.lines[Len(file.lines)])
    THEN [file EXCEPT !.lines = SubSeq(file.lines, 1, Len(file.lines) - 1)]
    ELSE file

\* C20 as stated: a final line that was cut off yields nothing, and the
\* lines before it yield what they yield without it.
C20_TruncatedLineSkipped ==
    emitted = BatchProcessTraces(
                 [i \in 1..Len(trace_files) |-> WithoutTruncatedLine(trace_files[i])])

\* C21: in the dictionary of assignments, for every commit, the method sets
\* of different benchmarks are pairwise disjoint, every assigned method is
\* one the benchmark reaches for that commit, every covered method is
\* assigned to exactly one benchmark, and no benchmark has an empty set.
C21_DisjointAssignment ==
    \A c \in Commits :
        /\ \A a, b \in DOMAIN selected_benchmarks[c] :
              a # b => selected_benchmarks[c][a].targets
                           \cap selected_benchmarks[c][b].targets = {}
        /\ \A b \in DOMAIN selected_benchmarks[c] :
              /\ selected_benchmarks[c][b].targets \subseteq benchmarks[b].targets[c]
              /\ selected_benchmarks[c][b].targets # {}
        /\ \A method \in covered_methods[c] :
              Cardinality({b \in DOMAIN selected_benchmarks[c] :
                              method \in selected_benchmarks[c][b].targets}) = 1

\* Two benchmarks are assigned for the current commit, and a method both of
\* them reach is assigned to one of them only.
C21_Witness ==
    /\ pc = "done"
    /\ \E a, b \in DOMAIN selected_benchmarks["current"] :
          /\ a # b
          /\ \E method \in benchmarks[a].targets["current"]
                            \cap benchmarks[b].targets["current"] :
                /\ method \in selected_benchmarks["current"][a].targets
                /\ method \notin selected_benchmarks["current"][b].targets

\* C22: every benchmark assigned to the current commit is also assigned to
\* the previous commit, so that the comparison of lines 381-389 has a trace
\* of the benchmark for both commits.
C22_AssignedToBothCommits ==
    pc = "done" =>
        DOMAIN selected_benchmarks["current"]
            \subseteq DOMAIN selected_benchmarks["previous"]

\* The candidate list as line 763 sorts it in the current state, and the
\* remaining benchmarks other than the first that have its coverage count
\* and less than half its duration.
SortedNow == SortBenchmarks(benchmarks, covered_methods, sorted_benchmarks)

FasterAlternatives ==
    {b \in Range(Tail(SortedNow)) :
        /\ NewCoverageCount(benchmarks, covered_methods, b)
              = NewCoverageCount(benchmarks, covered_methods, SortedNow[1])
        /\ benchmarks[b].duration * SIGNIFICANTLY_HIGHER_FACTOR
              < benchmarks[SortedNow[1]].duration}

\* C24: when another remaining benchmark with the coverage count of the top
\* choice has less than half its duration, the iteration commits the
\* fastest such alternative; the committed benchmark always has the
\* coverage count of the top choice, and no remaining benchmark with that
\* count has less than half the duration of the committed one.
C24_SubstitutionKeepsCoverage ==
    [][IsIterateStep =>
        /\ FasterAlternatives # {} =>
              /\ best_benchmark' \in FasterAlternatives
              /\ \A b \in FasterAlternatives :
                    benchmarks[best_benchmark'].duration <= benchmarks[b].duration
        /\ NewCoverageCount(benchmarks, covered_methods, best_benchmark')
              = NewCoverageCount(benchmarks, covered_methods, SortedNow[1])
        /\ \A b \in Range(sorted_benchmarks) :
              NewCoverageCount(benchmarks, covered_methods, b)
                  = NewCoverageCount(benchmarks, covered_methods, SortedNow[1])
              => ~(benchmarks[b].duration * SIGNIFICANTLY_HIGHER_FACTOR
                      < benchmarks[best_benchmark'].duration)]_vars

\* The top choice B1 has an equal-coverage alternative B3 that is not
\* faster, and B2 of lower coverage takes less than half its time: B1 is
\* committed.
C24_Witness ==
    /\ pc = "done"
    /\ iterations = 1
    /\ DOMAIN benchmarks = 1..3
    /\ benchmarks[1].targets["current"] = {1, 2} /\ benchmarks[1].duration = 3
    /\ benchmarks[2].targets["current"] = {1} /\ benchmarks[2].duration = 1
    /\ benchmarks[3].targets["current"] = {1, 2} /\ benchmarks[3].duration = 3
    /\ \A b \in 1..3 : benchmarks[b].targets["previous"] = {}
    /\ best_benchmark = 1
    /\ SelectedSet = {1}

\* C26: the benchmark an iteration commits is the first element of the
\* list sorted by (descending new coverage, ascending duration); the test
\* of line 785 is false in every iteration.
C26_FirstOfSortedCommitted ==
    [][IsIterateStep =>
        /\ best_benchmark' = SortedNow[1]
        /\ LET alternative_benchmarks ==
                  AlternativeBenchmarks(benchmarks, covered_methods, SortedNow)
           IN alternative_benchmarks # <<>> =>
                ~(benchmarks[SortedNow[1]].duration
                    > benchmarks[MinByDuration(benchmarks, alternative_benchmarks)].duration
                        * SIGNIFICANTLY_HIGHER_FACTOR)]_vars

\* Two benchmarks with the same targets, the first by name more than twice
\* as slow as the second: the second is the head of the sorted list and is
\* committed without a substitution.
C26_Witness ==
    /\ pc = "done"
    /\ iterations = 1
    /\ DOMAIN benchmarks = {1, 2}
    /\ benchmarks[1].targets = benchmarks[2].targets
    /\ benchmarks[1].duration > SIGNIFICANTLY_HIGHER_FACTOR * benchmarks[2].duration
    /\ best_benchmark = 2

\* The transition rule of the aggregator applied to the lines from the i-th
\* on: stack holds (method, enter time) pairs and selfTime the accumulator
\* of every method.  At a matched EXIT the exited method's accumulator gains
\* the duration and, if a caller remains, the caller's loses it.
RECURSIVE RuleSelfTimeFrom(_, _, _)
RuleSelfTimeFrom(i, stack, selfTime) ==
    IF i > Len(trace) THEN selfTime
    ELSE LET e == trace[i]
         IN IF e.kind = "S"
            THEN RuleSelfTimeFrom(i + 1,
                     Append(stack, [function |-> e.function, enter |-> e.time]),
                     selfTime)
            ELSE IF stack # <<>> /\ stack[Len(stack)].function = e.function
            THEN LET duration == e.time - stack[Len(stack)].enter
                     popped == SubSeq(stack, 1, Len(stack) - 1)
                     exited == [selfTime EXCEPT ![e.function] = @ + duration]
                 IN RuleSelfTimeFrom(i + 1, popped,
                        IF popped # <<>>
                        THEN [exited EXCEPT ![popped[Len(popped)].function] = @ - duration]
                        ELSE exited)
            ELSE RuleSelfTimeFrom(i + 1, stack, selfTime)

RuleSelfTime == RuleSelfTimeFrom(1, <<>>, [f \in Methods |-> 0])

\* C23: for every event sequence, balanced or not, the self time the code
\* accumulates for a method (the sum of its self-time samples, before
\* outlier removal) is the selfTime the transition rule produces.
C23_SelfTimeRefinesRule ==
    \A f \in Methods :
        total_times[f] # <<>> => SumSeq(self_times[f]) = RuleSelfTime[f]

\* The frames of call_stack are the open calls of the reference matching,
\* bottom first.
StackIsOpenCalls ==
    /\ Len(call_stack) = Len(Matching.open)
    /\ \A k \in 1..Len(call_stack) :
          /\ call_stack[k].function = trace[Matching.open[k]].function
          /\ call_stack[k].start_time = trace[Matching.open[k]].time

\* The call whose ENTER line is line i has a total-time and a self-time
\* sample; the line at position j closed a frame.
IsRecorded(i) == \E k \in 1..Len(Invocations) : Invocations[k].enter = i

ClosesFrame(j) == \E k \in 1..Len(Invocations) : Invocations[k].exit = j

\* A frame leaves the stack only at an EXIT line that names its function,
\* and only from the top.
OnlyMatchingExitPops ==
    [][Len(call_stack') < Len(call_stack) =>
          /\ Len(trace') = Len(trace) + 1
          /\ trace'[Len(trace')].kind = "E"
          /\ trace'[Len(trace')].function = call_stack[Len(call_stack)].function
          /\ Len(call_stack') = Len(call_stack) - 1]_vars

\* A call whose EXIT line is missing keeps its frame, the EXIT lines of the
\* calls that enclose it are discarded and none of them is recorded.
MissingExitBlocks(m) ==
    /\ m.call \in Range(Matching.open)
    /\ \A q \in m.enclosing : ~IsRecorded(q)
    /\ \A l \in program.logged : l.call \in m.enclosing => ~ClosesFrame(l.exit)

\* C27 as stated: a frame is removed only by an EXIT naming the method on
\* top, and once the EXIT of a call is missing its frame stays to the end,
\* the EXITs of all frames beneath it are discarded and no enclosing
\* invocation is recorded.
C27_MissingExitBlocksAll ==
    /\ OnlyMatchingExitPops
    /\ [](StackIsOpenCalls /\ \A m \in program.missing : MissingExitBlocks(m))

\* The call has not the method of a call that encloses it.
NotRecursive(m) ==
    \A q \in m.enclosing : trace[q].function # trace[m.call].function

\* C27 amended: a frame is removed only by an EXIT naming the method on
\* top; once the EXIT of a call is missing and no enclosing call has its
\* method, the frame stays to the end, no enclosing invocation is recorded,
\* and the EXIT of an enclosing call is discarded or closes a frame pushed
\* after the frame of the call whose EXIT is missing.
C27_MissingExitBlocksOthers ==
    /\ OnlyMatchingExitPops
    /\ [](/\ StackIsOpenCalls
          /\ \A m \in program.missing :
                NotRecursive(m) =>
                  /\ m.call \in Range(Matching.open)
                  /\ \A q \in m.enclosing : ~IsRecorded(q)
                  /\ \A l \in program.logged :
                        l.call \in m.enclosing =>
                          \A k \in 1..Len(Invocations) :
                              Invocations[k].exit = l.exit =>
                                Invocations[k].enter > m.call)

\* g is called inside f and loses its EXIT; the EXIT of f is read and
\* discarded, and the analysis ends with both frames on the stack.
C27_Witness ==
    /\ apc = "done"
    /\ \E m \in program.missing :
          /\ NotRecursive(m)
          /\ \E l \in program.logged : l.call \in m.enclosing
    /\ Len(call_stack) = 2
    /\ \A f \in Methods : total_times[f] = <<>>

\* C28: the self-time and the total-time statistics of a reported profile
\* come from the same retained invocations: the number of self-time
\* samples is call_count and self_execution_time <= total_execution_time.
C28_SameRetainedInvocations ==
    ppc = "done" /\ reported.call_count > 0 =>
        /\ reported.average_self_time[2] = reported.call_count
        /\ reported.self_execution_time <= reported.total_execution_time

\* The name the agent gives the log of a session of the benchmark.
IsLogOfBenchmark(f) ==
    \E key \in SessionKeys :
        FileName(f) = trace_file_name \o <<"_">> \o key \o <<".log">>

\* C25: the events assembled for a benchmark come only from files named
\* <base name>_<session key> plus extension; the files of a benchmark
\* whose name contains the base name contribute nothing, in the probe
\* assembler and in the analysis assembler.
C25_OnlyOwnFiles ==
    \A f \in parsed_from \cup analysed_from : IsLogOfBenchmark(f)

\* The outcome of the last build performed for the commit the last call
\* names, in the history file that call reads.
LastPerformed ==
    IF last_call.function = "__build_project"
    THEN performed.project[last_call.commit_hash]
    ELSE performed.benchmarks[last_call.commit_hash]

\* C29: the status a history file holds for a commit is the outcome of the
\* most recent build performed for that commit, and a call with
\* build_anyway = False returns True only if that build succeeded.
C29_CacheIsLastOutcome ==
    /\ \A commit \in DOMAIN build_history :
          build_history[commit] = performed.project[commit]
    /\ \A commit \in DOMAIN benchmark_build_history :
          benchmark_build_history[commit] = performed.benchmarks[commit]
    /\ (DOMAIN last_call # {} /\ ~last_call.build_anyway /\ last_call.value)
          => LastPerformed

\* C30: in a run of the loop no candidate is visited more than once (the
\* candidate visited last is none of those visited before), no commit is
\* executed twice, sampled_count does not exceed the number of distinct
\* commits with a successful execution, and i does not exceed N.
C30_NoRevisit ==
    /\ \A a \in 1..(Len(visits) - 1) :
          visits[a].index # visits[Len(visits)].index
    /\ progress.sampled_count
          <= Cardinality({visits[a].index :
                            a \in {b \in 1..Len(visits) : visits[b].status}})
    /\ progress.i <= sampling.N

====
